---- MODULE Spec2Model ----
(***************************************************************************)
(* Model of src/src/App.tsx (AppFinanceiroPessoal): the transaction set,   *)
(* the keyword rules, the budget map, the monthly aggregation and the CSV  *)
(* import with its deferred rule application, the JSON backup and its      *)
(* restore.                                                                *)
(*                                                                         *)
(* Representation.  Description, account and keyword texts are sequences   *)
(* of one-character strings, so that toLowerCase, trim, split(",") and     *)
(* includes are computed character by character.  Category names are       *)
(* strings that are only compared and tested for emptiness.  Amounts are   *)
(* integers counting hundredths (1234.56 is 123456); budget fractions are  *)
(* integer percents (30 stands for 0.3), so the arithmetic is exact.  A    *)
(* date "YYYY-MM-DD" is the record [y, m, d].                              *)
(***************************************************************************)
EXTENDS Integers, Sequences, FiniteSets, TLC

VARIABLES
    tx,        \* useLocalStorage(LS_KEYS.tx): the transaction list
    rules,     \* useLocalStorage(LS_KEYS.rules): the rule list
    budget,    \* useLocalStorage(LS_KEYS.budget): category -> percent
    month,     \* useState month: the selected month [y, m]
    tzOffset,  \* the host's local offset from UTC, in hours
    imp,       \* the CSV import in flight: its phase and what its closures hold
    arg,       \* `list` of the applyRules call, `txt` of the restore just made
    nextId,    \* uid(): the next id to hand out
    rst,       \* the backup restore in flight: its phase and the file's text
    disk,      \* the backup file downloaded last: its text and its payload
    lastOp     \* the handler that ran last

vars == <<tx, rules, budget, month, tzOffset, imp, arg, nextId, rst, disk, lastOp>>

(***************************************************************************)
(* Bounds of the model.                                                    *)
(***************************************************************************)
MaxTx == 2
MaxRules == 2

(***************************************************************************)
(* Program constants.                                                      *)
(***************************************************************************)
DEFAULT_CATEGORIES ==
    << "Moradia", "Alimentacao", "Transporte", "Saude", "Educacao", "Lazer",
       "Compras Pessoais", "Assinaturas e Servicos", "Impostos/Taxas",
       "Emergencias/Imprevistos", "Investimentos/Reserva", "Outros" >>

Vocabulary == { DEFAULT_CATEGORIES[i] : i \in 1..Len(DEFAULT_CATEGORIES) }

DEFAULT_BUDGET ==
    [ c \in Vocabulary |->
        CASE c = "Moradia"                 -> 30
          [] c = "Alimentacao"             -> 15
          [] c = "Transporte"              -> 10
          [] c = "Saude"                   -> 8
          [] c = "Educacao"                -> 5
          [] c = "Lazer"                   -> 8
          [] c = "Compras Pessoais"        -> 6
          [] c = "Assinaturas e Servicos"  -> 5
          [] c = "Impostos/Taxas"          -> 5
          [] c = "Emergencias/Imprevistos" -> 4
          [] c = "Investimentos/Reserva"   -> 4
          [] OTHER                         -> 0 ]

(***************************************************************************)
(* Optional fields.  `undefined` is a value of its own, distinct from the  *)
(* empty string; both are falsy.                                           *)
(***************************************************************************)
NoCat == "<undefined>"
NoText == << "<undefined>" >>

Falsy(c) == c = NoCat \/ c = ""

(***************************************************************************)
(* Text primitives (String.prototype.toLowerCase, trim, split, includes).  *)
(***************************************************************************)
LowerChar(c) ==
    CASE c = "A" -> "a"
      [] c = "B" -> "b"
      [] c = "F" -> "f"
      [] c = "I" -> "i"
      [] c = "U" -> "u"
      [] c = "D" -> "d"
      [] c = "R" -> "r"
      [] OTHER   -> c

toLowerCase(s) == [ i \in 1..Len(s) |-> LowerChar(s[i]) ]

RECURSIVE trimStart(_)
trimStart(s) ==
    IF s # <<>> /\ Head(s) = " " THEN trimStart(Tail(s)) ELSE s

RECURSIVE trimEnd(_)
trimEnd(s) ==
    IF s # <<>> /\ s[Len(s)] = " " THEN trimEnd(SubSeq(s, 1, Len(s) - 1)) ELSE s

trim(s) == trimEnd(trimStart(s))

\* s.split(","): the pieces between commas, empty pieces included.
RECURSIVE splitFrom(_, _, _)
splitFrom(s, i, cur) ==
    IF i > Len(s) THEN << cur >>
    ELSE IF s[i] = "," THEN << cur >> \o splitFrom(s, i + 1, <<>>)
    ELSE splitFrom(s, i + 1, Append(cur, s[i]))

split(s) == splitFrom(s, 1, <<>>)

\* hay.includes(needle)
includes(hay, needle) ==
    \E k \in 0..(Len(hay) - Len(needle)) :
        SubSeq(hay, k + 1, k + Len(needle)) = needle

(***************************************************************************)
(* applyRules (lines 251-271).                                             *)
(***************************************************************************)
\* rule.keywords.split(",").map(x => x.trim().toLowerCase()).filter(Boolean)
kws(rule) ==
    LET parts == split(rule.keywords)
    IN  SelectSeq([ i \in 1..Len(parts) |-> toLowerCase(trim(parts[i])) ],
                  LAMBDA k : k # <<>>)

\* `${t.description} ${t.account ?? ""}`.toLowerCase()
desc(t) ==
    toLowerCase(t.description \o << " " >>
                \o (IF t.account = NoText THEN <<>> ELSE t.account))

\* kws.some(k => desc.includes(k))
ruleMatches(rule, t) ==
    LET ks == kws(rule)
        d  == desc(t)
    IN  \E i \in 1..Len(ks) : includes(d, ks[i])

\* Array.prototype.sort((a, b) => a.priority - b.priority): stable insertion.
RECURSIVE insertByPriority(_, _)
insertByPriority(s, x) ==
    IF s = <<>> THEN << x >>
    ELSE IF s[Len(s)].priority <= x.priority THEN Append(s, x)
    ELSE Append(insertByPriority(SubSeq(s, 1, Len(s) - 1), x), s[Len(s)])

RECURSIVE sortByPriority(_)
sortByPriority(s) ==
    IF s = <<>> THEN <<>>
    ELSE insertByPriority(sortByPriority(SubSeq(s, 1, Len(s) - 1)), s[Len(s)])

\* Mutant of activeRules: the enabled filter is missing.
activeRules_NoFilter(rs) == sortByPriority(rs)

\* Mutant of activeRules: the rules are not sorted by priority.
activeRules_NoSort(rs) == SelectSeq(rs, LAMBDA x : x.enabled)

\* [...rules].filter(x => x.enabled).sort(...)
activeRules(rs) == sortByPriority(SelectSeq(rs, LAMBDA x : x.enabled))

\* The for-loop over r: the category of the first rule of r that matches.
RECURSIVE firstMatch(_, _, _)
firstMatch(t, r, i) ==
    IF i > Len(r) THEN t
    ELSE IF ruleMatches(r[i], t) THEN [t EXCEPT !.category = r[i].category]
    ELSE firstMatch(t, r, i + 1)

\* Mutant of classify: a category already set is overwritten.
classify_NoGuard(t, r) == firstMatch(t, r, 1)

\* Mutant of classify: the lower-cased match text is written back.
classify_WriteDesc(t, r) ==
    IF ~Falsy(t.category) THEN t
    ELSE [firstMatch(t, r, 1) EXCEPT !.description = desc(t)]

\* The body of list.map: one transaction against the active rules r.
classify(t, r) ==
    IF ~Falsy(t.category) THEN t
    ELSE firstMatch(t, r, 1)

\* Mutant of applyRulesResult: only the uncategorized items are kept.
applyRulesResult_Filter(list, rs) ==
    [ i \in 1..Len(SelectSeq(list, LAMBDA t : Falsy(t.category))) |->
        classify(SelectSeq(list, LAMBDA t : Falsy(t.category))[i], activeRules(rs)) ]

\* `next` of applyRules: list.map(...) under the rules rs.
applyRulesResult(list, rs) ==
    LET r == activeRules(rs)
    IN  [ i \in 1..Len(list) |-> classify(list[i], r) ]

(***************************************************************************)
(* Monthly aggregation (lines 127-130 and 188-246).                        *)
(***************************************************************************)
\* ym (lines 127-130): new Date("YYYY-MM-DD") is midnight UTC of that day;
\* getFullYear/getMonth read it in local time, which west of UTC is still
\* the evening of the day before.
ym(date, tz) ==
    IF tz < 0 /\ date.d = 1
    THEN IF date.m = 1 THEN [ y |-> date.y - 1, m |-> 12 ]
                       ELSE [ y |-> date.y, m |-> date.m - 1 ]
    ELSE [ y |-> date.y, m |-> date.m ]

\* txMonth (line 188): tx.filter(t => ym(t.date) === month)
txMonth(list, mo, tz) == SelectSeq(list, LAMBDA t : ym(t.date, tz) = mo)

abs(n) == IF n < 0 THEN -n ELSE n

\* Mutant of receitaMes: the filter on positive amounts is missing.
RECURSIVE receitaMes_NoFilter(_)
receitaMes_NoFilter(tm) ==
    IF tm = <<>> THEN 0 ELSE Head(tm).amount + receitaMes_NoFilter(Tail(tm))

\* receitaMes (lines 191-194): filter(amount > 0).reduce(a + b.amount, 0)
RECURSIVE receitaMes(_)
receitaMes(tm) ==
    IF tm = <<>> THEN 0
    ELSE (IF Head(tm).amount > 0 THEN Head(tm).amount ELSE 0) + receitaMes(Tail(tm))

\* despesaMes (lines 195-198): filter(amount < 0).reduce(a + Math.abs(b.amount), 0)
RECURSIVE despesaMes(_)
despesaMes(tm) ==
    IF tm = <<>> THEN 0
    ELSE (IF Head(tm).amount < 0 THEN abs(Head(tm).amount) ELSE 0) + despesaMes(Tail(tm))

\* resultadoMes (line 199)
resultadoMes(tm) == receitaMes(tm) - despesaMes(tm)

\* map[c] = (map[c] || 0) + v
Bump(map, c, v) ==
    [ k \in DOMAIN map \cup { c } |->
        (IF k \in DOMAIN map THEN map[k] ELSE 0) + (IF k = c THEN v ELSE 0) ]

\* Mutant of gastoKey: an unset category is not sent to "Outros".
gastoKey_NoFallback(t) == t.category

\* t.category || "Outros" (line 206)
gastoKey(t) == IF Falsy(t.category) THEN "Outros" ELSE t.category

\* Mutant of gastoStep: income is counted as spend too.
gastoStep_NoSign(map, t) == Bump(map, gastoKey(t), abs(t.amount))

\* One turn of the loop of gastoPorCategoria (lines 205-208).
gastoStep(map, t) ==
    IF t.amount < 0 THEN Bump(map, gastoKey(t), abs(t.amount)) ELSE map

\* gastoPorCategoria (lines 202-211): the loop over txMonth from map = {}.
RECURSIVE gastoFrom(_, _)
gastoFrom(map, tm) ==
    IF tm = <<>> THEN map ELSE gastoFrom(gastoStep(map, Head(tm)), Tail(tm))

gastoPorCategoria(tm) == gastoFrom(<<>>, tm)

\* budget[c] ?? 0 and gastoPorCategoria[c] ?? 0
Lookup(map, c) == IF c \in DOMAIN map THEN map[c] ELSE 0

\* cumprimento (line 225) as a fraction num/den; orcado100 is 100 * orcado
\* (an amount times a percent), so gasto / orcado = (100 * gasto) / orcado100.
cumprimento(orcado100, gasto) ==
    IF orcado100 > 0 THEN [ num |-> 100 * gasto, den |-> orcado100 ]
    ELSE [ num |-> 0, den |-> 1 ]

\* q < 0.8 and q <= 1 for a fraction q with den > 0
Below08(q) == 10 * q.num < 8 * q.den
AtMost1(q) == q.num <= q.den

\* Mutant of statusOf: the boundary 0.8 itself still counts as "verde".
statusOf_LooseGreen(orcado100, gasto) ==
    IF orcado100 = 0 /\ gasto = 0 THEN "cinza"
    ELSE IF Below08(cumprimento(orcado100, gasto))
            \/ 10 * cumprimento(orcado100, gasto).num = 8 * cumprimento(orcado100, gasto).den
         THEN "verde"
    ELSE IF AtMost1(cumprimento(orcado100, gasto)) THEN "amarelo"
    ELSE "vermelho"

\* The status chain of budgetRows (lines 227-231).
statusOf(orcado100, gasto) ==
    IF orcado100 = 0 /\ gasto = 0 THEN "cinza"
    ELSE IF Below08(cumprimento(orcado100, gasto)) THEN "verde"
    ELSE IF AtMost1(cumprimento(orcado100, gasto)) THEN "amarelo"
    ELSE "vermelho"

\* budgetRows (lines 220-234): one row per entry of DEFAULT_CATEGORIES.
budgetRows(bud, receita, gastoMap) ==
    [ i \in 1..Len(DEFAULT_CATEGORIES) |->
        LET c == DEFAULT_CATEGORIES[i]
            aloc == Lookup(bud, c)
            orcado100 == receita * aloc
            gasto == Lookup(gastoMap, c)
        IN  [ categoria |-> c, aloc |-> aloc, orcado100 |-> orcado100,
              gasto |-> gasto, variancia100 |-> orcado100 - 100 * gasto,
              cumprimento |-> cumprimento(orcado100, gasto),
              status |-> statusOf(orcado100, gasto) ] ]

\* a.date.localeCompare(b.date) < 0 (line 245) on zero-padded ISO dates.
dateBefore(a, b) ==
    \/ a.y < b.y
    \/ a.y = b.y /\ a.m < b.m
    \/ a.y = b.y /\ a.m = b.m /\ a.d < b.d

\* The body of the loop of seriesDiaria (lines 240-243); `map` is the
\* sequence of its entries in insertion order.
seriesStep(map, t) ==
    LET known == \E i \in 1..Len(map) : map[i].date = t.date
        base == IF known THEN map
                ELSE Append(map, [ date |-> t.date, receita |-> 0, despesa |-> 0 ])
    IN  [ i \in 1..Len(base) |->
            IF base[i].date # t.date THEN base[i]
            ELSE IF t.amount > 0
                 THEN [base[i] EXCEPT !.receita = @ + t.amount]
                 ELSE [base[i] EXCEPT !.despesa = @ + abs(t.amount)] ]

RECURSIVE seriesFrom(_, _)
seriesFrom(map, tm) ==
    IF tm = <<>> THEN map ELSE seriesFrom(seriesStep(map, Head(tm)), Tail(tm))

\* Array.prototype.sort by date (line 245): stable insertion.
RECURSIVE insertByDate(_, _)
insertByDate(s, x) ==
    IF s = <<>> THEN << x >>
    ELSE IF ~dateBefore(x.date, s[Len(s)].date) THEN Append(s, x)
    ELSE Append(insertByDate(SubSeq(s, 1, Len(s) - 1), x), s[Len(s)])

RECURSIVE sortByDate(_)
sortByDate(s) ==
    IF s = <<>> THEN <<>>
    ELSE insertByDate(sortByDate(SubSeq(s, 1, Len(s) - 1)), s[Len(s)])

\* Mutant of seriesDiaria: the entries are left in insertion order.
seriesDiaria_NoSort(tm) == seriesFrom(<<>>, tm)

\* seriesDiaria (lines 237-246): Object.values(map).sort(...)
seriesDiaria(tm) == sortByDate(seriesFrom(<<>>, tm))

(***************************************************************************)
(* The row normalization of onImportCSV (lines 283-333).                   *)
(***************************************************************************)
Digits == { "0", "1", "2", "3", "4", "5", "6", "7", "8", "9" }

DigitVal(c) ==
    CASE c = "0" -> 0 [] c = "1" -> 1 [] c = "2" -> 2 [] c = "3" -> 3
      [] c = "4" -> 4 [] c = "5" -> 5 [] c = "6" -> 6 [] c = "7" -> 7
      [] c = "8" -> 8 [] c = "9" -> 9

AllDigits(s) == \A i \in 1..Len(s) : s[i] \in Digits

\* The value of a digit string ("" is 0).
RECURSIVE NatOf(_)
NatOf(s) ==
    IF s = <<>> THEN 0
    ELSE 10 * NatOf(SubSeq(s, 1, Len(s) - 1)) + DigitVal(s[Len(s)])

Has(s, c) == \E i \in 1..Len(s) : s[i] = c

\* s.replace(/\./g, ""): every "." removed.
removeDots(s) == SelectSeq(s, LAMBDA c : c # ".")

\* s.replace(",", "."): the first "," only.
replaceFirstComma(s) ==
    IF ~Has(s, ",") THEN s
    ELSE LET k == CHOOSE i \in 1..Len(s) :
                    s[i] = "," /\ \A j \in 1..(i - 1) : s[j] # ","
         IN  [ i \in 1..Len(s) |-> IF i = k THEN "." ELSE s[i] ]

\* Number(s) for s over digits, ".", ",", "+", "-" and blanks, in hundredths:
\* [nan |-> TRUE] or [nan |-> FALSE, val |-> hundredths].  Number("") is 0.
\* Fraction digits beyond the second are dropped (the inputs have at most two).
Number(s0) ==
    LET s == trim(s0)
        signed == s # <<>> /\ s[1] \in { "-", "+" }
        body == IF signed THEN Tail(s) ELSE s
        dot == IF Has(body, ".")
               THEN CHOOSE i \in 1..Len(body) :
                        body[i] = "." /\ \A j \in 1..(i - 1) : body[j] # "."
               ELSE Len(body) + 1
        int == SubSeq(body, 1, dot - 1)
        frac == SubSeq(body, dot + 1, Len(body))
        frac2 == SubSeq(frac \o << "0", "0" >>, 1, 2)
        mag == 100 * NatOf(int) + NatOf(frac2)
    IN  IF s = <<>> THEN [ nan |-> FALSE, val |-> 0 ]
        ELSE IF AllDigits(int) /\ AllDigits(frac) /\ Len(int) + Len(frac) > 0
        THEN [ nan |-> FALSE, val |-> IF signed /\ s[1] = "-" THEN -mag ELSE mag ]
        ELSE [ nan |-> TRUE, val |-> 0 ]

\* The text handed to Number (lines 311-317), s being the trimmed cell.
numberText(s) ==
    IF Has(s, ".") /\ Has(s, ",") THEN replaceFirstComma(removeDots(s))
    ELSE IF Has(s, ",") THEN replaceFirstComma(s)
    ELSE s

\* Mutant of normAmount: "," is never read as the decimal separator.
normAmount_NoComma(raw) ==
    IF raw = NoText \/ raw = <<>> THEN 0
    ELSE IF Number(trim(raw)).nan THEN 0 ELSE Number(trim(raw)).val

\* The amount of a row (lines 308-320); an absent or empty cell is falsy in
\* the alias chain of line 286 and leaves amt = 0.
normAmount(raw) ==
    IF raw = NoText \/ raw = <<>> THEN 0
    ELSE LET n == Number(numberText(trim(raw)))
         IN  IF n.nan THEN 0 ELSE n.val

\* /^\d{4}-\d{2}-\d{2}$/ and /^\d{2}\/\d{2}\/\d{4}$/
IsIsoDate(s) ==
    /\ Len(s) = 10 /\ s[5] = "-" /\ s[8] = "-"
    /\ \A i \in { 1, 2, 3, 4, 6, 7, 9, 10 } : s[i] \in Digits

IsDmyDate(s) ==
    /\ Len(s) = 10 /\ s[3] = "/" /\ s[6] = "/"
    /\ \A i \in { 1, 2, 4, 5, 7, 8, 9, 10 } : s[i] \in Digits

\* The date of a row (lines 292-304).  Text that is neither pattern goes to
\* new Date(s); the texts of this model are not dates, so it gives today.
normDate(raw, today) ==
    IF raw = NoText \/ raw = <<>> THEN today
    ELSE LET s == trim(raw)
         IN  IF IsIsoDate(s)
             THEN [ y |-> NatOf(SubSeq(s, 1, 4)), m |-> NatOf(SubSeq(s, 6, 7)),
                    d |-> NatOf(SubSeq(s, 9, 10)) ]
             ELSE IF IsDmyDate(s)
             THEN [ y |-> NatOf(SubSeq(s, 7, 10)), m |-> NatOf(SubSeq(s, 4, 5)),
                    d |-> NatOf(SubSeq(s, 1, 2)) ]
             ELSE today

\* "Receita manual", "Despesa manual" (line 376) and "ifood, mcdonalds"
\* (line 401)
ReceitaManual ==
    << "R", "e", "c", "e", "i", "t", "a", " ", "m", "a", "n", "u", "a", "l" >>
DespesaManual ==
    << "D", "e", "s", "p", "e", "s", "a", " ", "m", "a", "n", "u", "a", "l" >>
IfoodMcdonalds ==
    << "i", "f", "o", "o", "d", ",", " ", "m", "c", "d", "o", "n", "a", "l", "d", "s" >>

\* "(sem descricao)"
SemDescricao ==
    << "(", "s", "e", "m", " ", "d", "e", "s", "c", "r", "i", "c", "a", "o", ")" >>

\* One row to a Tx (lines 283-333): the object returned has no account and
\* no method; an absent or empty category cell stays undefined.
normalizeRow(row, id, today) ==
    [ id |-> id,
      date |-> normDate(row.date, today),
      amount |-> normAmount(row.amount),
      description |-> IF row.description = NoText \/ row.description = <<>>
                      THEN SemDescricao ELSE row.description,
      account |-> NoText,
      method |-> NoCat,
      category |-> IF Falsy(row.category) THEN NoCat ELSE row.category,
      raw |-> << row >> ]

(***************************************************************************)
(* Records.                                                                *)
(***************************************************************************)
\* type Tx (lines 45-54); raw is <<>> when absent, << row >> when present.
Tx(id, date, amount, description, account, category, raw) ==
    [ id |-> id, date |-> date, amount |-> amount, description |-> description,
      account |-> account, method |-> NoCat, category |-> category, raw |-> raw ]

\* type Rule (lines 60-66)
Rule(id, keywords, category, enabled, priority) ==
    [ id |-> id, keywords |-> keywords, category |-> category,
      enabled |-> enabled, priority |-> priority ]

Ids(list) == { list[i].id : i \in 1..Len(list) }

\* No CSV import in flight.
NoImport ==
    [ phase |-> "idle", tx |-> <<>>, rules |-> <<>>, ok |-> TRUE, rows |-> <<>>,
      merged |-> <<>> ]

\* A JSON text that is not an object: `kind` says what JSON.parse makes of
\* it ("none" when there is no text at all).
Plain(kind) == [ kind |-> kind, obj |-> <<>> ]

\* No restore in flight, and no backup downloaded yet.
NoRestore == [ phase |-> "idle", text |-> Plain("none") ]
NoDisk == [ has |-> FALSE, text |-> Plain("none"), payload |-> <<>> ]

(***************************************************************************)
(* Handlers.                                                               *)
(***************************************************************************)
\* "Aplicar regras" (line 744): applyRules() on the rendered tx and rules.
ApplyRulesClick ==
    /\ arg' = tx
    /\ tx' = applyRulesResult(tx, rules)
    /\ lastOp' = "applyRules"
    /\ UNCHANGED <<rules, budget, month, tzOffset, imp, nextId, rst, disk>>

\* The month selector (line 460): setMonth(e.target.value).
SetMonth(m) ==
    /\ month' = m
    /\ arg' = <<>>
    /\ lastOp' = "setMonth"
    /\ UNCHANGED <<tx, rules, budget, tzOffset, imp, nextId, rst, disk>>

\* setBudgetPct (lines 393-395) with pct = typed / 100: the stored percent is
\* the typed number clamped to 0..100; the key is added when absent.
SetBudgetPct(cat, typed) ==
    /\ budget' = [ k \in DOMAIN budget \cup { cat } |->
                     IF k = cat
                     THEN (IF typed < 0 THEN 0 ELSE IF typed > 100 THEN 100 ELSE typed)
                     ELSE budget[k] ]
    /\ arg' = <<>>
    /\ lastOp' = "setBudgetPct"
    /\ UNCHANGED <<tx, rules, month, tzOffset, imp, nextId, rst, disk>>

\* addManualTx (lines 370-380); amounts are in hundredths, so 100 is 10000.
AddManualTx(sign, today) ==
    /\ tx' = << Tx(nextId, today, sign * 10000,
                   IF sign > 0 THEN ReceitaManual ELSE DespesaManual, NoText,
                   IF sign > 0 THEN "Outros" ELSE "Alimentacao", <<>>) >> \o tx
    /\ nextId' = nextId + 1
    /\ arg' = <<>>
    /\ lastOp' = "addManualTx"
    /\ UNCHANGED <<rules, budget, month, tzOffset, imp, rst, disk>>

\* removeTx (lines 383-385), from the delete button of a listed row.
RemoveTx(id) ==
    /\ id \in Ids(tx)
    /\ tx' = SelectSeq(tx, LAMBDA t : t.id # id)
    /\ arg' = <<>>
    /\ lastOp' = "removeTx"
    /\ UNCHANGED <<rules, budget, month, tzOffset, imp, nextId, rst, disk>>

\* updateTx (lines 388-390) with the one-field patches of lines 609, 617, 637.
UpdateTx(id, field, value) ==
    /\ id \in Ids(tx)
    /\ tx' = [ i \in 1..Len(tx) |->
                 IF tx[i].id = id THEN [tx[i] EXCEPT ![field] = value] ELSE tx[i] ]
    /\ arg' = <<>>
    /\ lastOp' = "updateTx"
    /\ UNCHANGED <<rules, budget, month, tzOffset, imp, nextId, rst, disk>>

\* "Limpar transacoes" (line 840), confirmed.
ClearTx ==
    /\ tx' = <<>>
    /\ arg' = <<>>
    /\ lastOp' = "clearTx"
    /\ UNCHANGED <<rules, budget, month, tzOffset, imp, nextId, rst, disk>>

\* addRule (lines 398-407).
AddRule ==
    /\ rules' = Append(rules,
                  Rule(nextId, IfoodMcdonalds, "Alimentacao", TRUE,
                       (IF rules = <<>> THEN 0 ELSE rules[Len(rules)].priority) + 10))
    /\ nextId' = nextId + 1
    /\ arg' = <<>>
    /\ lastOp' = "addRule"
    /\ UNCHANGED <<tx, budget, month, tzOffset, imp, rst, disk>>

\* The rule editors (lines 778, 787, 803, 812): one field of one rule.
EditRule(id, field, value) ==
    /\ \E i \in 1..Len(rules) : rules[i].id = id
    /\ rules' = [ i \in 1..Len(rules) |->
                    IF rules[i].id = id THEN [rules[i] EXCEPT ![field] = value]
                    ELSE rules[i] ]
    /\ arg' = <<>>
    /\ lastOp' = "editRule"
    /\ UNCHANGED <<tx, budget, month, tzOffset, imp, nextId, rst, disk>>

\* The delete button of a rule (line 818).
DeleteRule(id) ==
    /\ \E i \in 1..Len(rules) : rules[i].id = id
    /\ rules' = SelectSeq(rules, LAMBDA x : x.id # id)
    /\ arg' = <<>>
    /\ lastOp' = "deleteRule"
    /\ UNCHANGED <<tx, budget, month, tzOffset, imp, nextId, rst, disk>>

\* onImportCSV (lines 276-280): Papa.parse starts reading the file; its
\* callbacks are closures of this render and keep its tx and rules.
ImportStart(file) ==
    /\ imp.phase = "idle"
    /\ imp' = [ phase |-> "parsing", tx |-> tx, rules |-> rules, ok |-> file.ok,
                rows |-> file.rows, merged |-> <<>> ]
    /\ arg' = <<>>
    /\ lastOp' = "importStart"
    /\ UNCHANGED <<tx, rules, budget, month, tzOffset, nextId, rst, disk>>

\* Mutant of parsedRows: uid() is called once for the whole file.
parsedRows_OneId(rows, firstId, today) ==
    [ i \in 1..Len(rows) |-> normalizeRow(rows[i], firstId, today) ]

\* `parsed` (lines 283-333): the rows normalized, each with a new uid().
parsedRows(rows, firstId, today) ==
    [ i \in 1..Len(rows) |-> normalizeRow(rows[i], firstId + i - 1, today) ]

\* Mutant of mergedList: the rows are merged into the list as it is now.
mergedList_Current(closureTx, currentTx, parsed) == currentTx \o parsed

\* `merged` (line 336): [...tx, ...parsed] with the tx of the closure.
mergedList(closureTx, currentTx, parsed) == closureTx \o parsed

\* complete (lines 281-339): setTx(merged), then setTimeout(applyRules(merged)).
ImportComplete(today) ==
    /\ imp.phase = "parsing" /\ imp.ok
    /\ LET merged == mergedList(imp.tx, tx, parsedRows(imp.rows, nextId, today))
       IN  /\ tx' = merged
           /\ imp' = [imp EXCEPT !.phase = "timer", !.merged = merged]
    /\ nextId' = nextId + Len(imp.rows)
    /\ arg' = <<>>
    /\ lastOp' = "importComplete"
    /\ UNCHANGED <<rules, budget, month, tzOffset, rst, disk>>

\* Mutant of ImportError: the list of the closure is stored back.
ImportError_Reverts ==
    /\ imp.phase = "parsing" /\ ~imp.ok
    /\ tx' = imp.tx
    /\ imp' = NoImport
    /\ arg' = <<>>
    /\ lastOp' = "importError"
    /\ UNCHANGED <<rules, budget, month, tzOffset, nextId, rst, disk>>

\* error (lines 340-342): alert, nothing stored.
ImportError ==
    /\ imp.phase = "parsing" /\ ~imp.ok
    /\ imp' = NoImport
    /\ arg' = <<>>
    /\ lastOp' = "importError"
    /\ UNCHANGED <<tx, rules, budget, month, tzOffset, nextId, rst, disk>>

\* The timer of line 338: applyRules(merged) of the closure, with its rules.
ImportTimeout ==
    /\ imp.phase = "timer"
    /\ arg' = imp.merged
    /\ tx' = applyRulesResult(imp.merged, imp.rules)
    /\ imp' = NoImport
    /\ lastOp' = "importApplyRules"
    /\ UNCHANGED <<rules, budget, month, tzOffset, nextId, rst, disk>>

(***************************************************************************)
(* The JSON backup (lines 856-893).  A JSON text is modelled by the value  *)
(* JSON.parse gives for it: [kind |-> "object", obj |-> its properties],   *)
(* or Plain("garbage") for a text that does not parse, Plain("null") and   *)
(* Plain("number").  A property value is tagged with its JSON type:        *)
(* [t |-> "array" | "object" | "string" | "null", v |-> the value].  A     *)
(* JSON object has the properties that were defined when it was written:   *)
(* JSON.stringify leaves out a property whose value is undefined, and a    *)
(* property that is absent reads as undefined.                             *)
(***************************************************************************)
\* A CSV row as JSON: the cells that are undefined are left out.
jsonOfRow(row) ==
    LET gone == { k \in { "date", "amount", "description" } : row[k] = NoText }
                    \cup { k \in { "category" } : row[k] = NoCat }
    IN  [ k \in (DOMAIN row) \ gone |-> row[k] ]

\* The row read back: an absent cell is undefined.
rowOfJson(o) ==
    [ date |-> IF "date" \in DOMAIN o THEN o.date ELSE NoText,
      amount |-> IF "amount" \in DOMAIN o THEN o.amount ELSE NoText,
      description |-> IF "description" \in DOMAIN o THEN o.description ELSE NoText,
      category |-> IF "category" \in DOMAIN o THEN o.category ELSE NoCat ]

\* The properties JSON.stringify leaves out of a Tx: the undefined ones.
\* An empty category and a zero amount are values and are written.
undefinedKeys(t) ==
    { k \in { "account" } : t[k] = NoText }
        \cup { k \in { "method", "category" } : t[k] = NoCat }
        \cup { k \in { "raw" } : t[k] = <<>> }

\* Mutant of jsonOfTx: an empty category is left out like an undefined one.
jsonOfTx_DropEmpty(t) ==
    LET gone == undefinedKeys(t) \cup { k \in { "category" } : t[k] = "" }
    IN  [ k \in (DOMAIN t) \ gone |-> IF k = "raw" THEN jsonOfRow(t.raw[1]) ELSE t[k] ]

\* A Tx as JSON.stringify writes it (line 859).
jsonOfTx(t) ==
    [ k \in (DOMAIN t) \ undefinedKeys(t) |->
        IF k = "raw" THEN jsonOfRow(t.raw[1]) ELSE t[k] ]

\* An element of data.tx as the application reads it once stored (line 885).
txOfJson(o) ==
    [ id |-> o.id, date |-> o.date, amount |-> o.amount,
      description |-> o.description,
      account |-> IF "account" \in DOMAIN o THEN o.account ELSE NoText,
      method |-> IF "method" \in DOMAIN o THEN o.method ELSE NoCat,
      category |-> IF "category" \in DOMAIN o THEN o.category ELSE NoCat,
      raw |-> IF "raw" \in DOMAIN o THEN << rowOfJson(o.raw) >> ELSE <<>> ]

\* JSON.stringify(payload, null, 2) of payload = { tx, budget, rules }
\* (lines 858-859); every field of a rule and of the budget is defined.
stringify(payload) ==
    [ kind |-> "object",
      obj |-> [ tx |-> [ t |-> "array",
                         v |-> [ i \in 1..Len(payload.tx) |-> jsonOfTx(payload.tx[i]) ] ],
                budget |-> [ t |-> "object", v |-> payload.budget ],
                rules |-> [ t |-> "array", v |-> payload.rules ] ] ]

\* Mutant of truthy: an empty array or object counts as false.
truthy_NonEmpty(j) ==
    /\ j.t \in { "array", "object", "string" }
    /\ j.v # <<>>

\* if (x): an array and an object are true even when empty, a string when
\* not empty; null is false.
truthy(j) ==
    \/ j.t \in { "array", "object" }
    \/ j.t = "string" /\ j.v # <<>>

\* if (data.k): the property is there and its value is true.
has(data, k) == k \in DOMAIN data.obj /\ truthy(data.obj[k])

\* A stored value that is not a list (a string), boxed so that it can be
\* told from a list.
Boxed(v) == << [ text |-> v ] >>

\* What setTx(data.tx) stores: the list, or whatever else the file holds.
storedTx(j) ==
    IF j.t = "array" THEN [ i \in 1..Len(j.v) |-> txOfJson(j.v[i]) ] ELSE Boxed(j.v)

\* "Orcamento padrao" (line 848), confirmed.
RestoreDefaultBudget ==
    /\ budget' = DEFAULT_BUDGET
    /\ arg' = <<>>
    /\ lastOp' = "defaultBudget"
    /\ UNCHANGED <<tx, rules, month, tzOffset, imp, nextId, rst, disk>>

\* "Baixar backup" (lines 856-867): the payload of this render is written
\* to a file; `payload` keeps what was written.
DownloadBackup ==
    /\ LET payload == [ tx |-> tx, budget |-> budget, rules |-> rules ]
       IN  disk' = [ has |-> TRUE, text |-> stringify(payload), payload |-> payload ]
    /\ arg' = <<>>
    /\ lastOp' = "downloadBackup"
    /\ UNCHANGED <<tx, rules, budget, month, tzOffset, imp, nextId, rst>>

\* "Restaurar backup" (lines 879-882): f.text() starts reading the file.
RestoreStart(text) ==
    /\ rst.phase = "idle"
    /\ rst' = [ phase |-> "reading", text |-> text ]
    /\ arg' = <<>>
    /\ lastOp' = "restoreStart"
    /\ UNCHANGED <<tx, rules, budget, month, tzOffset, imp, nextId, disk>>

\* The callback of f.text() (lines 882-891).  JSON.parse throws on a text
\* that is not JSON, and data.tx throws on null: "Arquivo invalido.".  Any
\* other value goes through the three tests and "Backup restaurado.".
RestoreDone ==
    /\ rst.phase = "reading"
    /\ LET data == rst.text
       IN  IF data.kind \in { "garbage", "null" }
           THEN /\ lastOp' = "restoreInvalid"
                /\ UNCHANGED <<tx, budget, rules>>
           ELSE /\ lastOp' = "restoreBackup"
                /\ tx' = IF has(data, "tx") THEN storedTx(data.obj.tx) ELSE tx
                /\ budget' = IF has(data, "budget") THEN data.obj.budget.v ELSE budget
                /\ rules' = IF has(data, "rules") THEN data.obj.rules.v ELSE rules
    /\ arg' = rst.text
    /\ rst' = NoRestore
    /\ UNCHANGED <<month, tzOffset, imp, nextId, disk>>

(***************************************************************************)
(* The rule engine on bounded inputs: every transaction list and rule list *)
(* over the texts below, then "Aplicar regras".                            *)
(***************************************************************************)
\* (description, account, category): "Ub" without account and "iF" with
\* account "b", each without category and with one; and an empty category.
TxShapes ==
    { << << "U", "b" >>, NoText, NoCat >>, << << "U", "b" >>, NoText, "Lazer" >>,
      << << "i", "F" >>, << "b" >>, NoCat >>, << << "i", "F" >>, << "b" >>, "Lazer" >>,
      << << "i", "F" >>, << "b" >>, "" >> }
\* "B" | " F b ,x" (a keyword across the description/account gap) | " ,,"
Keywords == { << "B" >>,
              << " ", "F", " ", "b", " ", ",", "x" >>,
              << " ", ",", "," >> }
Priorities == { 0, 10 }

SomeDate == [ y |-> 2025, m |-> 9, d |-> 2 ]

SeqsUpTo(S, n) == UNION { [1..k -> S] : k \in 0..n }

\* Transaction lists with ids 1..Len in order.
RuleTxLists ==
    { [ i \in 1..Len(f) |->
          Tx(i, SomeDate, -5000, f[i][1], f[i][2], f[i][3], <<>>) ] :
      f \in SeqsUpTo(TxShapes, MaxTx) }

\* Rule lists; the i-th rule targets the i-th category of the vocabulary.
RuleLists ==
    { [ i \in 1..Len(f) |->
          Rule(MaxTx + i, f[i][1], DEFAULT_CATEGORIES[i], f[i][2], f[i][3]) ] :
      f \in SeqsUpTo(Keywords \X BOOLEAN \X Priorities, MaxRules) }

InitRules ==
    /\ tx \in RuleTxLists
    /\ rules \in RuleLists
    /\ budget = DEFAULT_BUDGET
    /\ month = [ y |-> 2025, m |-> 9 ]
    /\ tzOffset = 0
    /\ imp = NoImport
    /\ arg = <<>>
    /\ nextId = MaxTx + MaxRules + 1
    /\ rst = NoRestore
    /\ disk = NoDisk
    /\ lastOp = "init"

NextRules == ApplyRulesClick

SpecRules == InitRules /\ [][NextRules]_vars

(***************************************************************************)
(* Claims about the rule engine (checked under SpecRules).                 *)
(***************************************************************************)
\* What the claims call a match, stated on the texts directly: some maximal
\* comma-free piece of the keywords, stripped of surrounding blanks, is not
\* empty and occurs, letter case aside, in "description account".
Piece(s, a, b) ==
    /\ a <= b + 1
    /\ \A k \in a..b : s[k] # ","
    /\ a = 1 \/ s[a - 1] = ","
    /\ b = Len(s) \/ s[b + 1] = ","

Blank(s, a, b) == \A k \in a..b : s[k] = " "

KeywordHits(rule, t) ==
    LET s == rule.keywords
        text == t.description \o << " " >>
                \o (IF t.account = NoText THEN <<>> ELSE t.account)
    IN  \E a \in 1..Len(s), b \in 1..Len(s) :
          /\ a <= b
          /\ s[a] # " " /\ s[b] # " "
          /\ \E p \in 1..a, q \in b..Len(s) :
                Piece(s, p, q) /\ Blank(s, p, a - 1) /\ Blank(s, b + 1, q)
          /\ \E k \in 0..(Len(text) - (b - a + 1)) :
                \A j \in 1..(b - a + 1) :
                    LowerChar(text[k + j]) = LowerChar(s[a + j - 1])

\* Rule i comes before rule j: lower priority first, input order on ties.
Before(rs, i, j) ==
    \/ rs[i].priority < rs[j].priority
    \/ rs[i].priority = rs[j].priority /\ i < j

\* Rule w is the enabled matching rule that comes before every other one.
Wins(rs, w, t) ==
    /\ rs[w].enabled /\ KeywordHits(rs[w], t)
    /\ \A j \in 1..Len(rs) :
          (j # w /\ rs[j].enabled /\ KeywordHits(rs[j], t)) => Before(rs, w, j)

Applied == lastOp = "applyRules"

\* C1: applyRules leaves every transaction whose category is set (non-empty)
\* exactly as it was in its input, whatever the rules.
C1_CategorizedUntouched ==
    Applied =>
        \A i \in 1..Len(arg) :
            ~Falsy(arg[i].category) => (i <= Len(tx) /\ tx[i] = arg[i])

\* C1 witness: rules were applied to a list holding a categorized
\* transaction that an enabled rule with another category matches.
C1_Witness ==
    /\ Applied
    /\ \E i \in 1..Len(arg), j \in 1..Len(rules) :
          /\ ~Falsy(arg[i].category)
          /\ rules[j].enabled /\ KeywordHits(rules[j], arg[i])
          /\ rules[j].category # arg[i].category

\* C2: applyRules is idempotent: applying the same rules to its result
\* gives that result again.
C2_Idempotent ==
    Applied => applyRulesResult(tx, rules) = tx

\* C2 witness: the application changed the list (it categorized something),
\* and the list also holds a transaction it left as it was.
C2_Witness ==
    /\ Applied
    /\ \E i \in 1..Len(arg) : tx[i] # arg[i]
    /\ \E i \in 1..Len(arg) : tx[i] = arg[i]

\* C3: every transaction without category gets the category of the enabled
\* matching rule that is first by ascending priority (input order on ties);
\* it stays as it was when no enabled rule matches; a disabled rule never
\* assigns.
C3_FirstEnabledMatchWins ==
    Applied =>
        \A i \in 1..Len(arg) :
            Falsy(arg[i].category) =>
                /\ \A w \in 1..Len(rules) :
                      Wins(rules, w, arg[i]) => tx[i].category = rules[w].category
                /\ (~\E w \in 1..Len(rules) : Wins(rules, w, arg[i]))
                      => tx[i].category = arg[i].category

\* C3 witness: an uncategorized transaction received the category of the
\* winning rule although a rule earlier in the rule list matches it too (that
\* one is disabled or has a higher priority number).
C3_Witness ==
    /\ Applied
    /\ \E i \in 1..Len(arg), w \in 1..Len(rules), j \in 1..Len(rules) :
          /\ Falsy(arg[i].category)
          /\ Wins(rules, w, arg[i])
          /\ j < w /\ KeywordHits(rules[j], arg[i])
          /\ tx[i].category = rules[w].category

\* C4: the result has the length and order of the input and each element
\* keeps every field but category; the rule list is left as it was.
C4_FrameOfApplyRules ==
    /\ [](Applied =>
            /\ Len(tx) = Len(arg)
            /\ \A i \in 1..Len(arg) :
                  i <= Len(tx) => [tx[i] EXCEPT !.category = arg[i].category] = arg[i])
    /\ [][lastOp' = "applyRules" => rules' = rules]_vars

\* C4 witness: rules were applied to two transactions or more, one of
\* which was categorized by a rule.
C4_Witness ==
    /\ Applied
    /\ Len(arg) >= 2
    /\ \E i \in 1..Len(arg) : tx[i].category # arg[i].category

(***************************************************************************)
(* The aggregation on bounded inputs: every transaction list over the      *)
(* dates, amounts and categories below, in every month and zone; then the  *)
(* month selector and the budget editor.                                   *)
(***************************************************************************)
MaxAggTx == 2

AggDates == { [ y |-> 2025, m |-> 9, d |-> 1 ], [ y |-> 2025, m |-> 9, d |-> 2 ] }
AggAmounts == { 1000, -400, -600 }
AggCats == { NoCat, "", "Alimentacao", "Mercado" }
Months == { [ y |-> 2025, m |-> 8 ], [ y |-> 2025, m |-> 9 ] }
Zones == { -3, 0 }
TypedPercents == { 40, 50, 150 }

AggTxLists ==
    { [ i \in 1..Len(f) |->
          Tx(i, f[i][1], f[i][2], << "U", "b" >>, NoText, f[i][3], <<>>) ] :
      f \in SeqsUpTo(AggDates \X AggAmounts \X AggCats, MaxAggTx) }

InitAgg ==
    /\ tx \in AggTxLists
    /\ rules = <<>>
    /\ budget = DEFAULT_BUDGET
    /\ month \in Months
    /\ tzOffset \in Zones
    /\ imp = NoImport
    /\ arg = <<>>
    /\ nextId = Len(tx) + 1
    /\ rst = NoRestore
    /\ disk = NoDisk
    /\ lastOp = "init"

NextAgg ==
    \/ \E m \in Months : SetMonth(m)
    \/ \E p \in TypedPercents : SetBudgetPct("Alimentacao", p)

SpecAgg == InitAgg /\ [][NextAgg]_vars

\* The derived values of the current render.
TxMonthNow == txMonth(tx, month, tzOffset)
ReceitaNow == receitaMes(TxMonthNow)
DespesaNow == despesaMes(TxMonthNow)
GastoNow == gastoPorCategoria(TxMonthNow)
RowsNow == budgetRows(budget, ReceitaNow, GastoNow)

(***************************************************************************)
(* Claims about the aggregation (checked under SpecAgg).                   *)
(***************************************************************************)
\* The sum of f[i] over the indices i of S.
RECURSIVE SumOver(_, _)
SumOver(f, S) ==
    IF S = {} THEN 0
    ELSE LET i == CHOOSE j \in S : TRUE IN f[i] + SumOver(f, S \ { i })

AmountsOf(list) == [ i \in 1..Len(list) |-> list[i].amount ]
IsoMonth(date) == [ y |-> date.y, m |-> date.m ]

\* C6: in every zone, the month's transactions are exactly those whose ISO
\* date has the selected year-month, in input order.
C6_MonthIsIsoMonth ==
    TxMonthNow = SelectSeq(tx, LAMBDA t : IsoMonth(t.date) = month)

\* C7: income is the sum of the positive amounts of the month's transactions,
\* expense the sum of the absolute values of the negative ones, the result
\* is income - expense and equals the signed sum; both totals are >= 0.
C7_MonthlyTotals ==
    LET tm == TxMonthNow
        a == AmountsOf(tm)
        pos == { i \in 1..Len(tm) : a[i] > 0 }
        neg == { i \in 1..Len(tm) : a[i] < 0 }
        income == receitaMes(tm)
        expense == despesaMes(tm)
    IN  /\ income = SumOver(a, pos)
        /\ expense = -SumOver(a, neg)
        /\ resultadoMes(tm) = income - expense
        /\ resultadoMes(tm) = SumOver(a, 1..Len(tm))
        /\ income >= 0 /\ expense >= 0

\* C7 witness: the selected month holds an income and an expense.
C7_Witness ==
    LET tm == TxMonthNow
    IN  /\ \E i \in 1..Len(tm) : tm[i].amount > 0
        /\ \E i \in 1..Len(tm) : tm[i].amount < 0

\* C8: the spent column of the budget table adds up to the month's expense
\* (an expense in a category outside the vocabulary is counted under
\* "Outros").
C8_RowsCoverExpense ==
    LET rows == RowsNow
    IN  SumOver([ i \in 1..Len(rows) |-> rows[i].gasto ], 1..Len(rows)) = DespesaNow

\* The category an expense is to be counted under.
BucketOf(t) == IF t.category \in { NoCat, "" } THEN "Outros" ELSE t.category

\* C9: spendByCategory has one entry per category that has an expense in the
\* month (unset or empty category counting as "Outros"), holding the sum of
\* the absolute values of that category's negative amounts; positive
\* amounts never contribute, and the entries add up to the month's expense.
C9_SpendByCategory ==
    LET tm == TxMonthNow
        a == AmountsOf(tm)
        spend == gastoPorCategoria(tm)
        exp(c) == { i \in 1..Len(tm) : a[i] < 0 /\ BucketOf(tm[i]) = c }
    IN  /\ DOMAIN spend = { BucketOf(tm[i]) : i \in { j \in 1..Len(tm) : a[j] < 0 } }
        /\ \A c \in DOMAIN spend : spend[c] = -SumOver(a, exp(c))
        /\ SumOver(spend, DOMAIN spend) = despesaMes(tm)

\* C9 witness: the month holds an expense without category and an income.
C9_Witness ==
    LET tm == TxMonthNow
    IN  /\ \E i \in 1..Len(tm) : tm[i].amount < 0 /\ tm[i].category \in { NoCat, "" }
        /\ \E i \in 1..Len(tm) : tm[i].amount > 0
        /\ "Outros" \in DOMAIN gastoPorCategoria(tm)

\* The status the Budget Evaluator is to give, budgeted100 being 100 times
\* the budgeted amount: fulfillment = spent / budgeted when budgeted > 0,
\* else 0.
ExpectedStatus(budgeted100, spent) ==
    LET below08 == budgeted100 <= 0 \/ 1000 * spent < 8 * budgeted100
        above1  == budgeted100 > 0 /\ 100 * spent > budgeted100
    IN  IF budgeted100 = 0 /\ spent = 0 THEN "cinza"
        ELSE IF below08 THEN "verde"
        ELSE IF above1 THEN "vermelho"
        ELSE "amarelo"

\* C10: one row per vocabulary category, in vocabulary order, with
\* budgeted = allocated * income (allocation absent = 0), spent from
\* spendByCategory (0 when absent), and status neutral / onTrack / watch /
\* over ("cinza" / "verde" / "amarelo" / "vermelho") by the stated rule.
C10_BudgetRows ==
    LET tm == TxMonthNow
        income == receitaMes(tm)
        spend == gastoPorCategoria(tm)
        rows == budgetRows(budget, income, spend)
    IN  /\ Len(rows) = Len(DEFAULT_CATEGORIES)
        /\ \A i \in 1..Len(rows) :
              LET c == DEFAULT_CATEGORIES[i]
                  allocated == IF c \in DOMAIN budget THEN budget[c] ELSE 0
                  spent == IF c \in DOMAIN spend THEN spend[c] ELSE 0
              IN  /\ rows[i].categoria = c
                  /\ rows[i].aloc = allocated
                  /\ rows[i].gasto = spent
                  /\ rows[i].orcado100 = allocated * income
                  /\ rows[i].status = ExpectedStatus(allocated * income, spent)

\* C10 witness: a row with a positive budget whose spend is exactly 0.8 of
\* it (status watch).
C10_Witness ==
    LET rows == RowsNow
    IN  \E i \in 1..Len(rows) :
            /\ rows[i].orcado100 > 0
            /\ 1000 * rows[i].gasto = 8 * rows[i].orcado100
            /\ rows[i].status = "amarelo"

\* C11: a row whose budgeted amount is zero while its spend is not is shown
\* as a problem: its status is neither neutral ("cinza") nor onTrack
\* ("verde").
C11_ZeroBudgetSpendFlagged ==
    LET rows == RowsNow
    IN  \A i \in 1..Len(rows) :
            (rows[i].orcado100 = 0 /\ rows[i].gasto > 0) =>
                rows[i].status \notin { "cinza", "verde" }

\* C18: dailySeries has one entry per distinct date of the month's
\* transactions, in strictly ascending date order; an entry's income is the
\* sum of that date's positive amounts and its expense the sum of the
\* absolute values of that date's negative amounts; over the series they
\* add up to monthlyIncome and monthlyExpense.
C18_DailySeries ==
    LET tm == TxMonthNow
        a == AmountsOf(tm)
        series == seriesDiaria(tm)
        n == Len(series)
        on(d) == { i \in 1..Len(tm) : tm[i].date = d }
    IN  /\ { series[k].date : k \in 1..n } = { tm[i].date : i \in 1..Len(tm) }
        /\ \A k \in 1..n, l \in 1..n :
              k < l =>
                  LET p == series[k].date
                      q == series[l].date
                  IN  << p.y, p.m, p.d >> # << q.y, q.m, q.d >>
                      /\ (p.y * 10000 + p.m * 100 + p.d) < (q.y * 10000 + q.m * 100 + q.d)
        /\ \A k \in 1..n :
              /\ series[k].receita =
                     SumOver(a, { i \in on(series[k].date) : a[i] > 0 })
              /\ series[k].despesa =
                     -SumOver(a, { i \in on(series[k].date) : a[i] < 0 })
        /\ SumOver([ k \in 1..n |-> series[k].receita ], 1..n) = receitaMes(tm)
        /\ SumOver([ k \in 1..n |-> series[k].despesa ], 1..n) = despesaMes(tm)

\* C18 witness: the month's transactions fall on two dates, the later one
\* first in the list, and one of them is an income.
C18_Witness ==
    LET tm == TxMonthNow
    IN  /\ Len(tm) >= 2
        /\ dateBefore(tm[2].date, tm[1].date)
        /\ Len(seriesDiaria(tm)) = 2
        /\ \E i \in 1..Len(tm) : tm[i].amount > 0

(***************************************************************************)
(* The application: the transaction list and the rules under the user's    *)
(* handlers and one CSV import at a time.                                  *)
(***************************************************************************)
MaxIds == 3

Today == [ y |-> 2025, m |-> 9, d |-> 2 ]

IsoSep01 == << "2", "0", "2", "5", "-", "0", "9", "-", "0", "1" >>
DmySep15 == << "1", "5", "/", "0", "9", "/", "2", "0", "2", "5" >>
IFood == << "i", "F", "o", "o", "d" >>

\* A file of two rows, the first without category ("iFood", -12,50), the
\* second with a category of its own and no description (1.234,56); and a
\* file of one row the parser fails on.
Files ==
    { [ ok |-> TRUE,
        rows |-> << [ date |-> IsoSep01, amount |-> << "-", "1", "2", ",", "5", "0" >>,
                      description |-> IFood, category |-> NoCat ],
                    [ date |-> DmySep15,
                      amount |-> << "1", ".", "2", "3", "4", ",", "5", "6" >>,
                      description |-> NoText, category |-> "Mercado" ] >> ],
      [ ok |-> FALSE,
        rows |-> << [ date |-> IsoSep01, amount |-> << "5" >>,
                      description |-> IFood, category |-> NoCat ] >> ] }

\* What the user types or picks in an editor.
TxPatches == { << "category", "Lazer" >> }
RulePatches == { << "enabled", FALSE >> }

Init ==
    /\ tx = <<>>
    /\ rules = <<>>
    /\ budget = DEFAULT_BUDGET
    /\ month = [ y |-> 2025, m |-> 9 ]
    /\ tzOffset = 0
    /\ imp = NoImport
    /\ arg = <<>>
    /\ nextId = 1
    /\ rst = NoRestore
    /\ disk = NoDisk
    /\ lastOp = "init"

Next ==
    \/ \E sign \in { 1, -1 } : nextId <= MaxIds /\ AddManualTx(sign, Today)
    \/ \E id \in 1..MaxIds : RemoveTx(id)
    \/ \E id \in 1..MaxIds, p \in TxPatches : UpdateTx(id, p[1], p[2])
    \/ ClearTx
    \/ ApplyRulesClick
    \/ nextId <= MaxIds /\ AddRule
    \/ \E id \in 1..MaxIds, p \in RulePatches : EditRule(id, p[1], p[2])
    \/ \E id \in 1..MaxIds : DeleteRule(id)
    \/ \E file \in Files : nextId + Len(file.rows) - 1 <= MaxIds /\ ImportStart(file)
    \/ ImportComplete(Today)
    \/ ImportError
    \/ ImportTimeout

Spec == Init /\ [][Next]_vars

(***************************************************************************)
(* Claims about the import in flight (checked under Spec).                 *)
(***************************************************************************)
\* tx[i] and its successor differ in nothing but a category that was unset.
OnlyCategoryFilled(before, after) ==
    /\ Falsy(before.category)
    /\ [after EXCEPT !.category = before.category] = before

\* C5: in every step, a transaction leaves the list only by deletion,
\* clear-all or backup restore; a transaction that enters carries a new id
\* (a deleted one never comes back); and a transaction that stays changes
\* only by a user edit or by rule application filling an unset category.
C5_NoLostUpdate ==
    [][ /\ \A i \in 1..Len(tx) :
              tx[i].id \notin Ids(tx') =>
                  lastOp' \in { "removeTx", "clearTx", "restoreBackup" }
        /\ \A j \in 1..Len(tx') :
              tx'[j].id \notin Ids(tx) =>
                  (tx'[j].id >= nextId \/ lastOp' = "restoreBackup")
        /\ \A i \in 1..Len(tx), j \in 1..Len(tx') :
              (tx[i].id = tx'[j].id /\ tx[i] # tx'[j]) =>
                  \/ lastOp' \in { "updateTx", "restoreBackup" }
                  \/ /\ lastOp' \in { "applyRules", "importApplyRules" }
                     /\ OnlyCategoryFilled(tx[i], tx'[j])
      ]_vars

(***************************************************************************)
(* Claims about the import and the ids (checked under Spec).               *)
(***************************************************************************)
\* C15: the step that ends a failed import reports the failure
\* (lastOp "importError") and leaves the transaction list, the rules and
\* the id counter as they were: no row of the file is committed, and no
\* rule application is left scheduled.
C15_FailedImport ==
    [][ (imp.phase = "parsing" /\ ~imp.ok /\ imp' # imp) =>
            /\ lastOp' = "importError"
            /\ tx' = tx /\ rules' = rules /\ nextId' = nextId
            /\ imp'.phase = "idle"
      ]_vars

\* C15 witness: an import has failed while the list held a transaction.
C15_Witness == lastOp = "importError" /\ Len(tx) >= 1

\* The ids of a list, position by position.
IdSeq(list) == [ i \in 1..Len(list) |-> list[i].id ]

C20_DeferredRulesApplied ==
    lastOp = "importApplyRules" =>
        /\ Len(tx) = Len(arg)
        /\ \A i \in 1..Len(arg) :
              arg[i].raw # <<>> =>
                  /\ ~Falsy(arg[i].category) => tx[i].category = arg[i].category
                  /\ Falsy(arg[i].category) =>
                        \A w \in 1..Len(rules) :
                            Wins(rules, w, arg[i]) => tx[i].category = rules[w].category

(***************************************************************************)
(* The amount normalization on bounded inputs: the import of a one-row     *)
(* file whose amount cell is any text over AmountChars.                    *)
(***************************************************************************)
MaxAmountLen == 4

AmountChars == { "1", "5", ".", ",", "-", " ", "x" }

\* "1.234,56", "723,11" and "-250.30" (line 307)
AmountExamples ==
    { << "1", ".", "2", "3", "4", ",", "5", "6" >>,
      << "7", "2", "3", ",", "1", "1" >>,
      << "-", "2", "5", "0", ".", "3", "0" >> }

\* The digits Number finds after the decimal point of the text it is given.
fractionLen(raw) ==
    LET t == numberText(trim(raw))
    IN  IF Has(t, ".")
        THEN Len(t) - (CHOOSE i \in 1..Len(t) :
                           t[i] = "." /\ \A j \in 1..(i - 1) : t[j] # ".")
        ELSE 0

\* The amount cells: absent, empty, the examples and every text up to
\* MaxAmountLen, those of more than two decimals excepted (amounts are
\* hundredths).
AmountTexts ==
    { NoText } \cup AmountExamples
        \cup { s \in SeqsUpTo(AmountChars, MaxAmountLen) : fractionLen(s) <= 2 }

InitNorm ==
    /\ tx = <<>>
    /\ rules = <<>>
    /\ budget = DEFAULT_BUDGET
    /\ month = [ y |-> 2025, m |-> 9 ]
    /\ tzOffset = 0
    /\ \E a \in AmountTexts :
          imp = [ phase |-> "parsing", tx |-> <<>>, rules |-> <<>>, ok |-> TRUE,
                  rows |-> << [ date |-> IsoSep01, amount |-> a,
                                description |-> IFood, category |-> NoCat ] >>,
                  merged |-> <<>> ]
    /\ arg = <<>>
    /\ nextId = 1
    /\ rst = NoRestore
    /\ disk = NoDisk
    /\ lastOp = "importStart"

NextNorm == ImportComplete(Today) \/ ImportTimeout

SpecNorm == InitNorm /\ [][NextNorm]_vars

(***************************************************************************)
(* Claims about the amount normalization (checked under SpecNorm).         *)
(***************************************************************************)
\* The hundredths of the decimal numeral u written with separator sep: an
\* optional "-", digits, and optionally sep and digits, with one digit at
\* least; the empty set when u is not such a numeral.
DecimalReadings(u, sep) ==
    LET neg == u # <<>> /\ u[1] = "-"
        body == IF neg THEN Tail(u) ELSE u
    IN  { (IF neg THEN -1 ELSE 1)
            * (100 * NatOf(SubSeq(body, 1, k))
                 + NatOf(SubSeq(SubSeq(body, k + 2, Len(body)) \o << "0", "0" >>, 1, 2))) :
          k \in { j \in 0..Len(body) :
                    /\ AllDigits(SubSeq(body, 1, j))
                    /\ j < Len(body) => body[j + 1] = sep
                    /\ AllDigits(SubSeq(body, j + 2, Len(body)))
                    /\ \E i \in 1..Len(body) : body[i] \in Digits } }

\* The amount the stated reading gives a cell (blanks around the numeral
\* do not count).
ExpectedAmount(raw) ==
    IF raw = NoText THEN 0
    ELSE LET s == trim(raw)
             both == Has(s, ".") /\ Has(s, ",")
             u == IF both THEN trim(SelectSeq(s, LAMBDA c : c # ".")) ELSE s
             sep == IF Has(s, ",") THEN "," ELSE "."
             vs == DecimalReadings(u, sep)
         IN  IF vs = {} THEN 0 ELSE CHOOSE v \in vs : TRUE

\* C19: the amount of an imported row is its cell read with every "."
\* stripped and "," as the decimal separator when the cell has both, with
\* "," as the decimal separator when it has only ",", and as a plain decimal
\* otherwise; an unparseable or missing cell gives 0, a leading "-" is kept,
\* and every row is normalized (no cell makes the import lose the row).
C19_AmountNormalization ==
    /\ lastOp # "importStart" => Len(tx) = 1
    /\ \A i \in 1..Len(tx) :
          /\ tx[i].amount \in Int
          /\ tx[i].raw # <<>> =>
                tx[i].amount = ExpectedAmount(tx[i].raw[1].amount)

\* C19 witness: the cell "1.234,56" was imported as 1234.56.
C19_Witness ==
    /\ lastOp = "importComplete"
    /\ tx[1].raw[1].amount = << "1", ".", "2", "3", "4", ",", "5", "6" >>
    /\ tx[1].amount = 123456

(***************************************************************************)
(* The backup: every transaction list over the shapes below, then the      *)
(* download of a backup, the restore of the downloaded file or of a file   *)
(* written by hand, the budget editors and "Limpar transacoes".            *)
(***************************************************************************)
MaxBackupTx == 2

\* An imported row without category, account or method (its raw row kept),
\* and a manual entry of amount 0 with an account and an empty category.
BackupTxs ==
    { [ id |-> 0, date |-> SomeDate, amount |-> -1250, description |-> IFood,
        account |-> NoText, method |-> NoCat, category |-> NoCat,
        raw |-> << [ date |-> IsoSep01, amount |-> << "-", "1", "2", ",", "5", "0" >>,
                     description |-> IFood, category |-> NoCat ] >> ],
      [ id |-> 0, date |-> SomeDate, amount |-> 0, description |-> DespesaManual,
        account |-> << "b" >>, method |-> NoCat, category |-> "", raw |-> <<>> ] }

BackupTxLists ==
    { [ i \in 1..Len(f) |-> [f[i] EXCEPT !.id = i] ] :
      f \in SeqsUpTo(BackupTxs, MaxBackupTx) }

\* Files written by hand: text that is not JSON; null; 5; {"tx": "abc"};
\* {"budget": {"Lazer": 0.5}}; {"budget": {"Mercado": 1.5}}; {"rules": []}.
Abc == << "a", "b", "c" >>
HandmadeTexts ==
    { Plain("garbage"), Plain("null"), Plain("number"),
      [ kind |-> "object", obj |-> [ tx |-> [ t |-> "string", v |-> Abc ] ] ],
      [ kind |-> "object",
        obj |-> [ budget |-> [ t |-> "object", v |-> [ Lazer |-> 50 ] ] ] ],
      [ kind |-> "object",
        obj |-> [ budget |-> [ t |-> "object", v |-> [ Mercado |-> 150 ] ] ] ],
      [ kind |-> "object", obj |-> [ rules |-> [ t |-> "array", v |-> <<>> ] ] ] }

\* The files the user can pick.
PickableTexts == HandmadeTexts \cup { disk.text : x \in { y \in { 1 } : disk.has } }

\* The component renders: tx.filter (line 188) throws on a tx that is not
\* an array, and no handler runs after that.
Rendered == tx # Boxed(Abc)

InitBackup ==
    /\ tx \in BackupTxLists
    /\ rules = << Rule(MaxBackupTx + 1, IfoodMcdonalds, "Alimentacao", TRUE, 10) >>
    /\ budget = DEFAULT_BUDGET
    /\ month = [ y |-> 2025, m |-> 9 ]
    /\ tzOffset = 0
    /\ imp = NoImport
    /\ arg = <<>>
    /\ nextId = MaxBackupTx + 2
    /\ rst = NoRestore
    /\ disk = NoDisk
    /\ lastOp = "init"

NextBackup ==
    \/ Rendered /\ DownloadBackup
    \/ Rendered /\ \E text \in PickableTexts : RestoreStart(text)
    \/ Rendered /\ RestoreDone
    \/ Rendered /\ SetBudgetPct("Lazer", 150)
    \/ Rendered /\ RestoreDefaultBudget
    \/ Rendered /\ ClearTx

SpecBackup == InitBackup /\ [][NextBackup]_vars

(***************************************************************************)
(* Claims about the backup and the budget map (checked under SpecBackup).  *)
(***************************************************************************)
\* A backup payload of the right shape: an object whose collections, where
\* present, are a list (tx, rules) or a mapping (budget).
WellShaped(data) ==
    /\ data.kind = "object"
    /\ DOMAIN data.obj \subseteq { "tx", "budget", "rules" }
    /\ \A k \in DOMAIN data.obj :
          data.obj[k].t = (IF k = "budget" THEN "object" ELSE "array")

\* The step that ends the restore of a file.
RestoreEnds == rst.phase = "reading" /\ rst'.phase = "idle"

\* C12: the restore of a payload of the right shape replaces each of tx,
\* budget and rules by the payload's value when the payload has its key
\* (an empty list or mapping included) and leaves it as it was when the key
\* is absent, each independently of the other two.
C12_RestoreWholesale ==
    [][ (RestoreEnds /\ WellShaped(rst.text)) =>
            LET o == rst.text.obj
            IN  /\ lastOp' = "restoreBackup"
                /\ tx' = IF "tx" \in DOMAIN o
                         THEN [ i \in 1..Len(o.tx.v) |-> txOfJson(o.tx.v[i]) ]
                         ELSE tx
                /\ budget' = IF "budget" \in DOMAIN o THEN o.budget.v ELSE budget
                /\ rules' = IF "rules" \in DOMAIN o THEN o.rules.v ELSE rules
      ]_vars

\* C12 witness: a file holding only an empty rule list was restored over a
\* transaction list that is not empty: the rules are gone, the list stays.
C12_Witness ==
    /\ lastOp = "restoreBackup"
    /\ arg.kind = "object" /\ DOMAIN arg.obj = { "rules" }
    /\ rules = <<>>
    /\ Rendered /\ Len(tx) >= 1

\* C13: the restore of a malformed payload (text that does not parse, a
\* value that is not an object, an object with a collection of the wrong
\* shape) reports an error and changes none of tx, budget and rules.
C13_MalformedRejected ==
    [][ (RestoreEnds /\ ~WellShaped(rst.text)) =>
            /\ lastOp' = "restoreInvalid"
            /\ tx' = tx /\ budget' = budget /\ rules' = rules
      ]_vars

\* C14: once the downloaded backup has been restored, the transaction list
\* is the one that was exported, in order and with every field, whatever
\* the list was when the restore ran.
C14_RoundTrip ==
    (lastOp = "restoreBackup" /\ disk.has /\ arg = disk.text) =>
        tx = disk.payload.tx

\* C14 witness: the restored backup holds a transaction without category
\* and one with an empty category.
C14_Witness ==
    /\ lastOp = "restoreBackup" /\ disk.has /\ arg = disk.text
    /\ \E i \in 1..Len(tx) : tx[i].category = NoCat /\ tx[i].raw # <<>>
    /\ \E i \in 1..Len(tx) : tx[i].category = ""

\* C17: in every state every key of the budget map is a category of the
\* vocabulary and every allocation lies in [0,1] (0..100 percent); and a
\* per-category edit sets its category to a value in that range and leaves
\* every other allocation as it was.
C17_BudgetInRange ==
    /\ [](\A k \in DOMAIN budget : k \in Vocabulary /\ budget[k] \in 0..100)
    /\ [][ lastOp' = "setBudgetPct" =>
             \E c \in Vocabulary :
                 /\ DOMAIN budget' = DOMAIN budget \cup { c }
                 /\ budget'[c] \in 0..100
                 /\ \A k \in DOMAIN budget : k # c => budget'[k] = budget[k]
         ]_vars

====
